---------------------------- MODULE Spec2Model ----------------------------
(***************************************************************************)
(* Model of the Meraki lifecycle (EoL) report generator, src/main.py.      *)
(*                                                                         *)
(* Strings are sequences of one-character strings, so that strip, split,   *)
(* containment and upper-casing are computed character by character.       *)
(* The program is a batch pipeline                                         *)
(*   fetch_eol_table -> fetch_inventories -> build_eol_reports             *)
(*                   -> generate_pdf -> generate_csv                       *)
(* and every stage is one action.  Besides the whole run (Spec) there is   *)
(* one specification per stage, which starts that stage from a wider set   *)
(* of inputs than the whole run can afford.                                *)
(***************************************************************************)
EXTENDS Integers, Sequences, FiniteSets, TLC

VARIABLES
    pc,             \* position of the run
    x,              \* normalize_product_to_key: the argument
    key1,           \* normalize_product_to_key(x)
    key2,           \* normalize_product_to_key(key1)
    page,           \* the vendor's EoL page as the two requests see it
    eol_df,         \* fetch_eol_table's result, the catalog
    error,          \* the exception that ended the run, "" if none
    args,           \* the command line: no_pdf, no_csv
    selected_orgs,  \* the organizations chosen for the run
    today,          \* date.today()
    org_idx,        \* fetch_inventories: the organizations fetched so far
    inventories,    \* label -> devices, in insertion order
    reports,        \* build_eol_reports' result
    pdf_file,       \* the document: whether it is written, and its sections
    csv_file        \* the table: whether it is written, and its rows

normVars == <<x, key1, key2>>
inputVars == <<page, args, selected_orgs, today>>
fetchVars == <<org_idx, inventories>>
vars == <<pc, normVars, inputVars, eol_df, error, fetchVars, reports,
          pdf_file, csv_file>>

(***************************************************************************)
(* Bounds                                                                  *)
(***************************************************************************)
MaxLen == 4         \* longest argument given to the normalizer
MaxPageRows == 2    \* most rows of the vendor's table
MaxDevices == 3     \* most devices in all the inventories together
MaxPdfRows == 3     \* most rows of the organization table under study

(***************************************************************************)
(* Characters and strings                                                  *)
(***************************************************************************)
\* A value that is not a str (None, a float NaN); no string holds this token.
NotStr == <<"<not-a-str>">>

\* The characters the normalizer is exercised with.
Chars == {"a", "h", "H", "W", "-", ",", " ", "\t"}

UpperLetters ==
    <<"A", "B", "C", "D", "E", "F", "G", "H", "I", "J", "K", "L", "M",
      "N", "O", "P", "Q", "R", "S", "T", "U", "V", "W", "X", "Y", "Z">>

LowerLetters ==
    <<"a", "b", "c", "d", "e", "f", "g", "h", "i", "j", "k", "l", "m",
      "n", "o", "p", "q", "r", "s", "t", "u", "v", "w", "x", "y", "z">>

\* the position of c in the sequence a, 0 if it is not in it
IndexIn(a, c) ==
    IF \E i \in 1..Len(a) : a[i] = c THEN CHOOSE i \in 1..Len(a) : a[i] = c ELSE 0

\* str.upper() on one character.
UpperChar(c) ==
    IF IndexIn(LowerLetters, c) # 0 THEN UpperLetters[IndexIn(LowerLetters, c)] ELSE c

\* str.lower() on one character.
LowerChar(c) ==
    IF IndexIn(UpperLetters, c) # 0 THEN LowerLetters[IndexIn(UpperLetters, c)] ELSE c

Upper(s) == [i \in 1..Len(s) |-> UpperChar(s[i])]
Lower(s) == [i \in 1..Len(s) |-> LowerChar(s[i])]

\* The characters str.strip() removes.
IsSpace(c) == c \in {" ", "\t", "\n"}

RECURSIVE LStrip(_)
LStrip(s) == IF s # <<>> /\ IsSpace(Head(s)) THEN LStrip(Tail(s)) ELSE s

RECURSIVE RStrip(_)
RStrip(s) ==
    IF s # <<>> /\ IsSpace(s[Len(s)]) THEN RStrip(SubSeq(s, 1, Len(s) - 1)) ELSE s

\* s.strip()
Strip(s) == RStrip(LStrip(s))

\* sep occurs in s at position i
OccursAt(s, sep, i) ==
    /\ i >= 1
    /\ i + Len(sep) - 1 <= Len(s)
    /\ \A j \in 1..Len(sep) : s[i + j - 1] = sep[j]

\* s.find(sep) + 1: the first position where sep occurs in s, 0 if none
Find(s, sep) ==
    LET hits == {i \in 1..Len(s) : OccursAt(s, sep, i)}
    IN  IF hits = {} THEN 0 ELSE CHOOSE i \in hits : \A j \in hits : i <= j

\* sep in s
Contains(s, sep) == Find(s, sep) # 0

\* s.split(sep)[0]
SplitHead(s, sep) ==
    IF Contains(s, sep) THEN SubSeq(s, 1, Find(s, sep) - 1) ELSE s

\* s.split(sep): all the parts, in order
RECURSIVE Split(_, _)
Split(s, sep) ==
    IF Contains(s, sep)
    THEN <<SubSeq(s, 1, Find(s, sep) - 1)>>
            \o Split(SubSeq(s, Find(s, sep) + Len(sep), Len(s)), sep)
    ELSE <<s>>

Comma == <<",">>
Blank == <<" ">>
HW    == <<"-", "H", "W">>

(***************************************************************************)
(* normalize_product_to_key                                                *)
(***************************************************************************)
\* A slip of line 29: the text after the first comma instead of before it.
FirstSkuAfterComma(s) ==
    IF Contains(s, Comma)
    THEN Strip(SubSeq(s, Find(s, Comma) + 1, Len(s)))
    ELSE Strip(s)

\* s.split(",")[0].strip(), line 29
FirstSku(s) == Strip(SplitHead(s, Comma))

\* lines 31-32
StripHW(s) == IF Contains(s, HW) THEN SplitHead(s, HW) ELSE s

normalize_product_to_key(s) ==
    IF s = NotStr
    THEN <<>>
    ELSE Upper(StripHW(SplitHead(FirstSku(Strip(s)), Blank)))

(***************************************************************************)
(* The normalizer alone: it is applied to an argument, then to its own     *)
(* result.                                                                 *)
(***************************************************************************)
StringsUpTo(n) == UNION {[1..k -> Chars] : k \in 0..n}

NormInputs == StringsUpTo(MaxLen) \cup {NotStr}

\* The variables of the normalizer when it is not under study.
NormIdle == x = <<>> /\ key1 = <<>> /\ key2 = <<>>

\* The variables of the pipeline before the run has touched them.
NoPage == [fault |-> "none", rows |-> <<>>]
NoArgs == [no_pdf |-> FALSE, no_csv |-> FALSE]
NoDate == <<1, 1, 1>>
NoFile == [written |-> FALSE, body |-> <<>>]
InputIdle == page = NoPage /\ args = NoArgs /\ selected_orgs = <<>> /\ today = NoDate
NothingDone ==
    /\ eol_df = <<>>
    /\ error = ""
    /\ org_idx = 0
    /\ inventories = <<>>
    /\ reports = <<>>
    /\ pdf_file = NoFile
    /\ csv_file = NoFile

InitNorm ==
    /\ pc = "norm0"
    /\ x \in NormInputs
    /\ key1 = <<>>
    /\ key2 = <<>>
    /\ InputIdle
    /\ NothingDone

Normalize ==
    /\ pc = "norm0"
    /\ key1' = normalize_product_to_key(x)
    /\ pc' = "norm1"
    /\ UNCHANGED <<x, key2, inputVars, eol_df, error, fetchVars, reports, pdf_file, csv_file>>

NormalizeAgain ==
    /\ pc = "norm1"
    /\ key2' = normalize_product_to_key(key1)
    /\ pc' = "norm2"
    /\ UNCHANGED <<x, key1, inputVars, eol_df, error, fetchVars, reports, pdf_file, csv_file>>

NextNorm == Normalize \/ NormalizeAgain

SpecNorm == InitNorm /\ [][NextNorm]_vars

(***************************************************************************)
(* C5                                                                      *)
(***************************************************************************)
\* "-HW" occurs in s in some letter case other than upper case
HasMixedCaseHW(s) ==
    \E i \in 1..Len(s) :
        /\ OccursAt(Upper(s), HW, i)
        /\ ~OccursAt(s, HW, i)

\* s holds white space other than the space character
HasOtherSpace(s) == \E i \in 1..Len(s) : IsSpace(s[i]) /\ s[i] # " "

\* C5 as stated: the normalizer is idempotent on every input string,
\* normalize(normalize(x)) = normalize(x), also for "-HW" in any letter case.
C5_IdempotentAll == (pc = "norm2" /\ x # NotStr) => key2 = key1

\* C5 amended: the normalizer is idempotent on every ASCII input string in
\* which "-HW" occurs only in upper case and whose only white space is the
\* space character.
C5_IdempotentUpperHW ==
    (pc = "norm2" /\ x # NotStr /\ ~HasMixedCaseHW(x) /\ ~HasOtherSpace(x))
        => key2 = key1

\* C5 witness: "a-HW" has been normalized twice, to "A" both times.
C5_Witness ==
    /\ pc = "norm2"
    /\ x = <<"a", "-", "H", "W">>
    /\ key1 = <<"A">>
    /\ key2 = <<"A">>

(***************************************************************************)
(* fetch_eol_table                                                         *)
(*                                                                         *)
(* A page is what pd.read_html and requests.get see: a fault, or the rows  *)
(* of its first table.  A row has its Product cell, its End-of-Support     *)
(* Date cell and, for each of its td elements, the href values of the a    *)
(* elements in it (<<>> is an a element without a usable href).  The other *)
(* date columns are copied like End-of-Support Date and are left out.      *)
(***************************************************************************)
\* str(v)
Str(v) == IF v = NotStr THEN <<"n", "a", "n">> ELSE v

IsHref(h) == h # <<>>

\* lines 62-66: the usable hrefs of one td
TdLinks(td) == SelectSeq(td, IsHref)

\* lines 61-68 for one tr: one list per td that has links
RECURSIVE RowLinks(_)
RowLinks(cells) ==
    IF cells = <<>>
    THEN <<>>
    ELSE (IF TdLinks(Head(cells)) # <<>> THEN <<TdLinks(Head(cells))>> ELSE <<>>)
            \o RowLinks(Tail(cells))

\* lines 59-68: the header tr has no td and adds nothing
RECURSIVE ScrapeLinks(_)
ScrapeLinks(rows) ==
    IF rows = <<>>
    THEN <<>>
    ELSE RowLinks(Head(rows).cells) \o ScrapeLinks(Tail(rows))

\* lines 70-77: the "Upgrade Path" column of a table of n rows
AttachLinks(links, n) ==
    IF Len(links) = n
    THEN links
    ELSE [i \in 1..n |-> IF i <= Len(links) THEN links[i] ELSE <<>>]

IsNonEmpty(s) == s # <<>>

\* A slip of line 83: the cell is not split, a multi-SKU row stays one row.
PartsUnsplit(product_raw) ==
    SelectSeq(<<Strip(product_raw)>>, IsNonEmpty)

\* [p.strip() for p in s.split(sep) if p.strip()], lines 83 and 411
StrippedParts(s, sep) ==
    LET all == Split(s, sep)
    IN  SelectSeq([i \in 1..Len(all) |-> Strip(all[i])], IsNonEmpty)

\* line 83
Parts(product_raw) == StrippedParts(product_raw, Comma)

\* lines 82-91 for one row
ExpandRow(row) ==
    LET parts == Parts(Str(row.Product))
    IN  IF parts = <<>>
        THEN <<row>>
        ELSE [i \in 1..Len(parts) |-> [row EXCEPT !.Product = parts[i]]]

\* lines 80-93
RECURSIVE ExpandRows(_)
ExpandRows(rows) ==
    IF rows = <<>> THEN <<>> ELSE ExpandRow(Head(rows)) \o ExpandRows(Tail(rows))

\* "; ".join(v)
RECURSIVE Join(_)
Join(v) ==
    IF v = <<>> THEN <<>>
    ELSE IF Len(v) = 1 THEN Head(v)
    ELSE Head(v) \o <<";", " ">> \o Join(Tail(v))

HasKey(row) == row.ProductKey # <<>>

\* lines 96-103
KeyedRows(expanded) ==
    SelectSeq(
        [i \in 1..Len(expanded) |->
            [Product     |-> expanded[i].Product,
             EoS         |-> expanded[i].EoS,
             UpgradePath |-> Join(expanded[i].UpgradePath),
             ProductKey  |-> normalize_product_to_key(expanded[i].Product)]],
        HasKey)

\* lines 41-108: the catalog, or the exception raised
fetch_eol_table(pg) ==
    IF pg.fault # "none"
    THEN [ok |-> FALSE, df |-> <<>>, error |-> pg.fault]
    ELSE LET n        == Len(pg.rows)
             links    == AttachLinks(ScrapeLinks(pg.rows), n)
             withPath == [i \in 1..n |->
                            [Product     |-> pg.rows[i].Product,
                             EoS         |-> pg.rows[i].EoS,
                             UpgradePath |-> links[i]]]
             expanded == ExpandRows(withPath)
             df       == KeyedRows(expanded)
         IN  IF expanded = <<>>
             THEN [ok |-> FALSE, df |-> <<>>, error |-> "KeyError: 'Product'"]
             ELSE IF df = <<>>
             THEN [ok |-> FALSE, df |-> <<>>, error |-> "All EoL rows collapsed"]
             ELSE [ok |-> TRUE, df |-> df, error |-> ""]

\* The ways the two requests and the checks of lines 41-57 fail.
PageFaults ==
    {"read_html failed", "No tables found", "no 'Product' column",
     "HTTP error", "no table element"}

\* Product cells
Cell_MS120   == <<"M","S","1","2","0","-","8",","," ","M","S","1","2","0","-","8","F","P">>
Cell_MX68HW  == <<"M","X","6","8","-","H","W">>
Cell_mx64    == <<"m","x","6","4"," ","c","l","o","u","d">>
Cell_Commas  == <<",", " ", ",">>
Cell_Empty   == <<>>

ProductCells == {Cell_MS120, Cell_MX68HW, Cell_mx64, Cell_Commas, Cell_Empty, NotStr}

\* End-of-Support Date cells
Eos_Jan2026 == <<"J","a","n"," ","1",","," ","2","0","2","6">>

Url_u == <<"u">>
Url_v == <<"v">>

\* The td elements of a row: no link, a link in one cell, links in two cells,
\* two links in one cell next to an a element without href.
CellLinks ==
    {<< <<>>, <<>> >>,
     << <<>>, <<Url_u>> >>,
     << <<Url_u>>, <<Url_v>> >>,
     << <<>>, <<Url_u, <<>>, Url_v>> >>}

PageRows == [Product : ProductCells, EoS : {Eos_Jan2026}, cells : CellLinks]

Pages ==
    {[fault |-> f, rows |-> <<>>] : f \in PageFaults}
        \cup {[fault |-> "none", rows |-> r] :
                 r \in UNION {[1..k -> PageRows] : k \in 0..MaxPageRows}}

InitBuild ==
    /\ pc = "fetch_eol_table"
    /\ page \in Pages
    /\ args = NoArgs
    /\ selected_orgs = <<>>
    /\ today = NoDate
    /\ NormIdle
    /\ NothingDone

\* main, line 547
FetchEolTable ==
    /\ pc = "fetch_eol_table"
    /\ LET r == fetch_eol_table(page)
       IN  /\ eol_df' = r.df
           /\ error' = r.error
           /\ pc' = IF r.ok THEN "fetch_inventories" ELSE "aborted"
    /\ UNCHANGED <<normVars, inputVars, fetchVars, reports, pdf_file, csv_file>>

NextBuild == FetchEolTable

SpecBuild == InitBuild /\ [][NextBuild]_vars

(***************************************************************************)
(* C6                                                                      *)
(***************************************************************************)
Key_MS120    == <<"M","S","1","2","0">>
Key_MS120_8  == <<"M","S","1","2","0","-","8">>
Key_MS120_8FP == <<"M","S","1","2","0","-","8","F","P">>

\* the page's table is the single row whose Product cell is "MS120-8, MS120-8FP"
OnlyMS120Row ==
    /\ page.fault = "none"
    /\ Len(page.rows) = 1
    /\ page.rows[1].Product = Cell_MS120

\* C6 as stated: a row whose Product cell is "MS120-8, MS120-8FP" becomes
\* exactly two catalog rows, and both have the ProductKey "MS120".
C6_BothKeysMS120 ==
    (pc = "fetch_inventories" /\ OnlyMS120Row)
        => /\ Len(eol_df) = 2
           /\ eol_df[1].ProductKey = Key_MS120
           /\ eol_df[2].ProductKey = Key_MS120

\* C6 amended: a row whose Product cell is "MS120-8, MS120-8FP" becomes
\* exactly two catalog rows, with Product and ProductKey "MS120-8" for the
\* first and "MS120-8FP" for the second; the two keys stay distinct.
C6_TwoRowsOwnKeys ==
    (pc = "fetch_inventories" /\ OnlyMS120Row)
        => /\ Len(eol_df) = 2
           /\ eol_df[1].Product = Key_MS120_8
           /\ eol_df[1].ProductKey = Key_MS120_8
           /\ eol_df[2].Product = Key_MS120_8FP
           /\ eol_df[2].ProductKey = Key_MS120_8FP

\* C6 witness: such a page has been fetched and expanded into two rows.
C6_Witness ==
    /\ pc = "fetch_inventories"
    /\ OnlyMS120Row
    /\ Len(eol_df) = 2

(***************************************************************************)
(* build_eol_reports                                                       *)
(*                                                                         *)
(* A device is [model, networkId]; networkId is Null for a unit that is    *)
(* assigned to no network.  inventories is the dict of fetch_inventories,  *)
(* a sequence of [label, devices] with distinct labels in insertion order. *)
(***************************************************************************)
Null == <<"<None>">>

\* A slip of line 181: every device counts, assigned or not.
IsAssignedAlways(d) == TRUE

\* line 181: ~inv_df["networkId"].isna()
IsAssigned(d) == d.networkId # Null

\* A slip of line 186: the model is taken as it is written.
ModelKeyAsWritten(d) == Str(d.model)

\* line 186: inv_assigned["model"].astype(str).str.upper()
ModelKey(d) == Upper(Str(d.model))

\* line 188: value_counts(), a mapping from the keys that occur to their number
ValueCounts(keys) ==
    [k \in {keys[i] : i \in 1..Len(keys)} |->
        Cardinality({i \in 1..Len(keys) : keys[i] = k})]

\* The value pandas gives a key that the mapping lacks.
NaN == -1

\* lines 190-191: final_eol["ProductKey"].map(counts)
WithTotalUnits(df, counts) ==
    [i \in 1..Len(df) |->
        [Product     |-> df[i].Product,
         EoS         |-> df[i].EoS,
         UpgradePath |-> df[i].UpgradePath,
         ProductKey  |-> df[i].ProductKey,
         Units       |-> IF df[i].ProductKey \in DOMAIN counts
                         THEN counts[df[i].ProductKey]
                         ELSE NaN]]

HasUnits(row) == row.Units # NaN

\* line 194: dropna(subset=["Total Units"])
DropNa(rows) == SelectSeq(rows, HasUnits)

\* The permutations of 1..n
Perms(n) == {p \in [1..n -> 1..n] : \A i, j \in 1..n : p[i] = p[j] => i = j}

IsDescending(rows) ==
    \A i, j \in 1..Len(rows) : i < j => rows[i].Units >= rows[j].Units

\* lines 197-200: sort_values(by=["Total Units"], ascending=False) with the
\* default kind="quicksort", which pandas documents as not stable: the rows
\* come out in descending order, rows with equal Total Units in any order.
SortValuesDescending(rows) ==
    {r \in {[i \in 1..Len(rows) |-> rows[p[i]]] : p \in Perms(Len(rows))} :
        IsDescending(r)}

\* lines 174-202 for one organization: the reports it may get
OrgReports(df, devices) ==
    LET inv_assigned == SelectSeq(devices, IsAssigned)
        keys         == [i \in 1..Len(inv_assigned) |-> ModelKey(inv_assigned[i])]
        final_eol    == DropNa(WithTotalUnits(df, ValueCounts(keys)))
    IN  IF devices = <<>> \/ inv_assigned = <<>>
        THEN {<<>>}
        ELSE SortValuesDescending(final_eol)

\* A slip of lines 176-178: an organization without devices is skipped
\* without a report being appended.
RECURSIVE build_skipping_empty(_, _)
build_skipping_empty(df, inv) ==
    IF inv = <<>>
    THEN {<<>>}
    ELSE IF Head(inv).devices = <<>>
    THEN build_skipping_empty(df, Tail(inv))
    ELSE {<<[name |-> Head(inv).label, report |-> r]>> \o rest :
            r \in OrgReports(df, Head(inv).devices),
            rest \in build_skipping_empty(df, Tail(inv))}

\* lines 171-204: the lists of reports build_eol_reports may return
RECURSIVE build_eol_reports(_, _)
build_eol_reports(df, inv) ==
    IF inv = <<>>
    THEN {<<>>}
    ELSE {<<[name |-> Head(inv).label, report |-> r]>> \o rest :
            r \in OrgReports(df, Head(inv).devices),
            rest \in build_eol_reports(df, Tail(inv))}

\* main, line 551
BuildEolReports ==
    /\ pc = "build_eol_reports"
    /\ reports' \in build_eol_reports(eol_df, inventories)
    /\ pc' = "generate_pdf"
    /\ UNCHANGED <<normVars, inputVars, eol_df, error, fetchVars, pdf_file, csv_file>>

\* main, line 559, with --no-pdf
SkipPdf ==
    /\ pc = "generate_pdf"
    /\ args.no_pdf
    /\ pc' = "generate_csv"
    /\ UNCHANGED <<normVars, inputVars, eol_df, error, fetchVars, reports,
                   pdf_file, csv_file>>

(***************************************************************************)
(* The matcher alone, followed by the table export: a catalog that         *)
(* fetch_eol_table returns and inventories of up to MaxDevices devices.    *)
(***************************************************************************)
Cell_MX    == <<"M","X">>
Cell_MXs   == <<"M","X",","," ","M","X","-","H","W">>
Cell_MS    == <<"M","S">>
Cell_MR    == <<"M","R">>

PlainRow(product) ==
    [Product |-> product, EoS |-> Eos_Jan2026, cells |-> << <<>>, <<Url_u>> >>]

CatalogPages ==
    {[fault |-> "none", rows |-> <<PlainRow(Cell_MX)>>],
     [fault |-> "none", rows |-> <<PlainRow(Cell_MR)>>],
     [fault |-> "none", rows |-> <<PlainRow(Cell_MS), PlainRow(Cell_MX)>>],
     [fault |-> "none", rows |-> <<PlainRow(Cell_MR), PlainRow(Cell_MXs), PlainRow(Cell_MS)>>]}

Catalogs == {fetch_eol_table(p).df : p \in CatalogPages}

Label_B == <<"B"," ","-"," ","2">>
Label_a == <<"a"," ","-"," ","1">>
OrgLabels == {Label_B, Label_a}

Net_1 == <<"N","1">>
Net_2 == <<"N","2">>

DeviceKinds ==
    {[model |-> <<"M","X">>, networkId |-> Net_1],
     [model |-> <<"m","x">>, networkId |-> Net_2],
     [model |-> <<"M","X">>, networkId |-> Null],
     [model |-> <<"M","S">>, networkId |-> Net_1]}

DeviceLists(n) == UNION {[1..k -> DeviceKinds] : k \in 0..n}

\* No, one or two organizations with at most n devices between them.
InventoriesUpTo(n) ==
    {<<>>}
    \cup {<<[label |-> l, devices |-> d]>> : l \in OrgLabels, d \in DeviceLists(n)}
    \cup UNION {
            {<<[label |-> l[1], devices |-> d1], [label |-> l[2], devices |-> d2]>> :
                l \in {<<Label_B, Label_a>>, <<Label_a, Label_B>>},
                d2 \in DeviceLists(n - Len(d1))} :
            d1 \in DeviceLists(n)}

InitMatch ==
    /\ pc = "build_eol_reports"
    /\ page = NoPage
    /\ args = [no_pdf |-> TRUE, no_csv |-> FALSE]
    /\ selected_orgs = <<>>
    /\ today = NoDate
    /\ eol_df \in Catalogs
    /\ org_idx = 0
    /\ inventories \in InventoriesUpTo(MaxDevices)
    /\ error = ""
    /\ reports = <<>>
    /\ pdf_file = NoFile
    /\ csv_file = NoFile
    /\ NormIdle

(***************************************************************************)
(* generate_csv                                                            *)
(*                                                                         *)
(* A row of the table has the columns Organization, the data columns,      *)
(* Total Units and Note.  Before line 496 a Total Units cell is a number   *)
(* or blank: [num |-> TRUE, v |-> n] or [num |-> FALSE, v |-> 0].  The     *)
(* order of the data columns (the order of a Python set, line 457) is not  *)
(* modelled.                                                               *)
(***************************************************************************)
Digits == <<"0", "1", "2", "3", "4", "5", "6", "7", "8", "9">>

\* The characters in the order of their code points.
CodeOrder ==
    <<"\t", " ", ",", "-">> \o Digits \o <<";">> \o UpperLetters \o LowerLetters

\* ord(c), up to the order
Code(c) == IndexIn(CodeOrder, c)

\* a < b for two str
RECURSIVE StrLess(_, _)
StrLess(a, b) ==
    IF b = <<>> THEN FALSE
    ELSE IF a = <<>> THEN TRUE
    ELSE IF Head(a) = Head(b) THEN StrLess(Tail(a), Tail(b))
    ELSE Code(Head(a)) < Code(Head(b))

\* line 448: key=lambda r: r["name"].lower()
LowerNameBefore(r1, r2) == StrLess(Lower(r1.name), Lower(r2.name))

\* lines 275 and 448: sorted(reports, key=...), a stable sort: a report goes
\* behind those whose key is smaller and behind the equal ones that precede it.
SortedByName(rs) ==
    LET n == Len(rs)
        rank(i) == 1 + Cardinality({j \in 1..n :
                        \/ LowerNameBefore(rs[j], rs[i])
                        \/ (~LowerNameBefore(rs[i], rs[j]) /\ j < i)})
    IN  [k \in 1..n |-> rs[CHOOSE i \in 1..n : rank(i) = k]]

NoteText ==
    <<"N","o"," ","E","o","L"," ","d","e","v","i","c","e","s"," ","f","o","u","n","d">>

\* lines 475-478
PlaceholderRow(org_name) ==
    [Organization |-> org_name,
     Product      |-> <<>>,
     EoS          |-> <<>>,
     UpgradePath  |-> <<>>,
     ProductKey   |-> <<>>,
     Units        |-> [num |-> TRUE, v |-> 0],
     Note         |-> NoteText]

\* lines 481-486 for one row
MatchedCsvRow(org_name, row) ==
    [Organization |-> org_name,
     Product      |-> row.Product,
     EoS          |-> row.EoS,
     UpgradePath  |-> row.UpgradePath,
     ProductKey   |-> row.ProductKey,
     Units        |-> [num |-> TRUE, v |-> row.Units],
     Note         |-> <<>>]

\* A slip of lines 473-479: an organization without rows adds nothing.
OrgCsvRowsNoPlaceholder(item) ==
    IF item.report = <<>>
    THEN <<>>
    ELSE [i \in 1..Len(item.report) |-> MatchedCsvRow(item.name, item.report[i])]

\* lines 473-486: the rows of one organization
OrgCsvRows(item) ==
    IF item.report = <<>>
    THEN <<PlaceholderRow(item.name)>>
    ELSE [i \in 1..Len(item.report) |-> MatchedCsvRow(item.name, item.report[i])]

\* lines 469-486
RECURSIVE AllRows(_)
AllRows(rs) ==
    IF rs = <<>> THEN <<>> ELSE OrgCsvRows(Head(rs)) \o AllRows(Tail(rs))

\* lines 496-498: pd.to_numeric(..., errors="coerce").fillna(0)
ToNumeric(cell) == IF cell.num THEN cell.v ELSE 0

Coerced(rows) ==
    [i \in 1..Len(rows) |-> [rows[i] EXCEPT !.Units = ToNumeric(rows[i].Units)]]

\* A slip of lines 499-503: Total Units ascending within an organization.
CsvBeforeAscending(r1, r2) ==
    \/ StrLess(r1.Organization, r2.Organization)
    \/ r1.Organization = r2.Organization /\ r1.Units < r2.Units

\* lines 499-503: by=["Organization", "Total Units"], ascending=[True, False]
CsvBefore(r1, r2) ==
    \/ StrLess(r1.Organization, r2.Organization)
    \/ r1.Organization = r2.Organization /\ r1.Units > r2.Units

\* lines 492-503; the sort on two keys is pandas' lexsort, which is stable
SortCombined(rows) ==
    LET c == Coerced(rows)
        n == Len(c)
        rank(i) == 1 + Cardinality({j \in 1..n :
                        \/ CsvBefore(c[j], c[i])
                        \/ (~CsvBefore(c[i], c[j]) /\ j < i)})
    IN  [k \in 1..n |-> c[CHOOSE i \in 1..n : rank(i) = k]]

\* lines 448-509: the rows of the file written
generate_csv(rs) ==
    LET all_rows == AllRows(SortedByName(rs))
    IN  IF all_rows = <<>> THEN <<>> ELSE SortCombined(all_rows)

\* main, lines 565-568
GenerateCsv ==
    /\ pc = "generate_csv"
    /\ ~args.no_csv
    /\ csv_file' = [written |-> TRUE, body |-> generate_csv(reports)]
    /\ pc' = "done"
    /\ UNCHANGED <<normVars, inputVars, eol_df, error, fetchVars, reports, pdf_file>>

\* main, line 565, with --no-csv
SkipCsv ==
    /\ pc = "generate_csv"
    /\ args.no_csv
    /\ pc' = "done"
    /\ UNCHANGED <<normVars, inputVars, eol_df, error, fetchVars, reports,
                   pdf_file, csv_file>>

NextMatch == BuildEolReports \/ SkipPdf \/ GenerateCsv

SpecMatch == InitMatch /\ [][NextMatch]_vars

(***************************************************************************)
(* _parse_end_of_support                                                   *)
(*                                                                         *)
(* The cells of the table pd.read_html returns are str, or a float NaN for *)
(* an empty cell, so the branches for Timestamp, date and datetime values  *)
(* (lines 230-240) are never taken.  A date is <<year, month, day>>.       *)
(***************************************************************************)
None == <<>>

IsDigit(c)  == IndexIn(Digits, c) # 0
IsLetter(c) == IndexIn(UpperLetters, c) # 0 \/ IndexIn(LowerLetters, c) # 0

\* The lengths of the longest prefix of letters, of digits, of white space.
LettersLen(s) ==
    CHOOSE i \in 0..Len(s) :
        /\ \A j \in 1..i : IsLetter(s[j])
        /\ i = Len(s) \/ ~IsLetter(s[i + 1])

DigitsLen(s) ==
    CHOOSE i \in 0..Len(s) :
        /\ \A j \in 1..i : IsDigit(s[j])
        /\ i = Len(s) \/ ~IsDigit(s[i + 1])

SpacesLen(s) ==
    CHOOSE i \in 0..Len(s) :
        /\ \A j \in 1..i : IsSpace(s[j])
        /\ i = Len(s) \/ ~IsSpace(s[i + 1])

\* s[n:]
Drop(s, n) == SubSeq(s, n + 1, Len(s))

\* int(ds) for a run of digits
RECURSIVE NumberOf(_)
NumberOf(ds) ==
    IF ds = <<>>
    THEN 0
    ELSE 10 * NumberOf(SubSeq(ds, 1, Len(ds) - 1)) + (IndexIn(Digits, ds[Len(ds)]) - 1)

\* %b and %B, matched without regard to case
MonthAbbrs ==
    << <<"j","a","n">>, <<"f","e","b">>, <<"m","a","r">>, <<"a","p","r">>,
       <<"m","a","y">>, <<"j","u","n">>, <<"j","u","l">>, <<"a","u","g">>,
       <<"s","e","p">>, <<"o","c","t">>, <<"n","o","v">>, <<"d","e","c">> >>

MonthNames ==
    << <<"j","a","n","u","a","r","y">>, <<"f","e","b","r","u","a","r","y">>,
       <<"m","a","r","c","h">>, <<"a","p","r","i","l">>, <<"m","a","y">>,
       <<"j","u","n","e">>, <<"j","u","l","y">>, <<"a","u","g","u","s","t">>,
       <<"s","e","p","t","e","m","b","e","r">>, <<"o","c","t","o","b","e","r">>,
       <<"n","o","v","e","m","b","e","r">>, <<"d","e","c","e","m","b","e","r">> >>

IsLeap(y) == y % 4 = 0 /\ (y % 100 # 0 \/ y % 400 = 0)

DaysInMonth(y, m) ==
    IF m = 2 THEN (IF IsLeap(y) THEN 29 ELSE 28)
    ELSE IF m \in {4, 6, 9, 11} THEN 30
    ELSE 31

\* %d and %m: one or two digits, of a value from 1 to most
FieldOk(run, most) ==
    /\ Len(run) \in {1, 2}
    /\ NumberOf(run) >= 1
    /\ NumberOf(run) <= most

\* datetime(y, m, d) of the three runs of digits, None for a date that does
\* not exist
DateOf(yRun, m, dRun) ==
    IF /\ Len(yRun) = 4
       /\ NumberOf(yRun) >= 1
       /\ m \in 1..12
       /\ FieldOk(dRun, 31)
       /\ NumberOf(dRun) <= DaysInMonth(NumberOf(yRun), m)
    THEN <<NumberOf(yRun), m, NumberOf(dRun)>>
    ELSE None

\* strptime(s, "%b %d, %Y") and strptime(s, "%B %d, %Y"); names: the months
ParseMonthDayYear(s, names) ==
    LET word   == SubSeq(s, 1, LettersLen(s))
        r1     == Drop(s, LettersLen(s))
        r2     == Drop(r1, SpacesLen(r1))
        dRun   == SubSeq(r2, 1, DigitsLen(r2))
        r3     == Drop(r2, DigitsLen(r2))
        r4     == Drop(r3, 1)
        r5     == Drop(r4, SpacesLen(r4))
    IN  IF /\ IndexIn(names, Lower(word)) # 0
           /\ SpacesLen(r1) >= 1
           /\ r3 # <<>> /\ Head(r3) = ","
           /\ SpacesLen(r4) >= 1
           /\ DigitsLen(r5) = Len(r5)
        THEN DateOf(r5, IndexIn(names, Lower(word)), dRun)
        ELSE None

\* strptime(s, "%Y-%m-%d")
ParseIso(s) ==
    LET yRun == SubSeq(s, 1, 4)
        r1   == Drop(s, 4)
        r2   == Drop(r1, 1)
        mRun == SubSeq(r2, 1, DigitsLen(r2))
        r3   == Drop(r2, DigitsLen(r2))
        r4   == Drop(r3, 1)
    IN  IF /\ Len(s) >= 4 /\ DigitsLen(yRun) = 4
           /\ r1 # <<>> /\ Head(r1) = "-"
           /\ FieldOk(mRun, 12)
           /\ r3 # <<>> /\ Head(r3) = "-"
           /\ DigitsLen(r4) = Len(r4)
        THEN DateOf(yRun, NumberOf(mRun), r4)
        ELSE None

\* lines 242-252
parse_end_of_support(value) ==
    LET s == Strip(Str(value))
    IN  IF s = <<>> THEN None
        ELSE IF ParseMonthDayYear(s, MonthAbbrs) # None THEN ParseMonthDayYear(s, MonthAbbrs)
        ELSE IF ParseMonthDayYear(s, MonthNames) # None THEN ParseMonthDayYear(s, MonthNames)
        ELSE ParseIso(s)

\* the days of the years before y
DaysBeforeYear(y) ==
    (y - 1) * 365 + ((y - 1) \div 4) - ((y - 1) \div 100) + ((y - 1) \div 400)

\* the days of year y before its month m
RECURSIVE DaysBeforeMonth(_, _)
DaysBeforeMonth(y, m) ==
    IF m = 1 THEN 0 ELSE DaysBeforeMonth(y, m - 1) + DaysInMonth(y, m - 1)

\* date.toordinal()
ToOrdinal(d) == DaysBeforeYear(d[1]) + DaysBeforeMonth(d[1], d[2]) + d[3]

(***************************************************************************)
(* generate_pdf                                                            *)
(*                                                                         *)
(* The document is the sequence of its organization sections; a section    *)
(* is the notice "No EoL devices found" or a table, and a table row is     *)
(* recorded with its highlight, its fill colour and the target of its      *)
(* Upgrade Path link.  Fonts, widths and page breaks are not modelled.     *)
(***************************************************************************)
Fill_Red    == <<255, 204, 204>>
Fill_Yellow == <<255, 255, 204>>
Fill_Grey   == <<222, 220, 220>>
Fill_White  == <<255, 255, 255>>

\* A slip of line 390: a date 365 days ahead is not "within the next 365 days".
HighlightBelow365(eos_raw, td) ==
    LET eos_date == parse_end_of_support(eos_raw)
    IN  IF eos_date = None THEN "none"
        ELSE IF ToOrdinal(eos_date) - ToOrdinal(td) < 0 THEN "red"
        ELSE IF ToOrdinal(eos_date) - ToOrdinal(td) < 365 THEN "yellow"
        ELSE "none"

\* lines 382-391: "red", "yellow" or "none"
Highlight(eos_raw, td) ==
    LET eos_date == parse_end_of_support(eos_raw)
    IN  IF eos_date = None THEN "none"
        ELSE IF ToOrdinal(eos_date) - ToOrdinal(td) < 0 THEN "red"
        ELSE IF ToOrdinal(eos_date) - ToOrdinal(td) <= 365 THEN "yellow"
        ELSE "none"

\* lines 393-404
FillColor(highlight, fill_toggle) ==
    IF highlight = "red" THEN Fill_Red
    ELSE IF highlight = "yellow" THEN Fill_Yellow
    ELSE IF fill_toggle THEN Fill_Grey
    ELSE Fill_White

\* lines 410-430: the link of the Upgrade Path cell, <<>> for an empty cell
FirstUrl(urls_str) ==
    LET urls == StrippedParts(urls_str, <<";">>)
    IN  IF urls # <<>> THEN urls[1] ELSE <<>>

\* lines 380-435 for one row
RenderRow(row, fill_toggle, td) ==
    [highlight |-> Highlight(row.EoS, td),
     fill      |-> FillColor(Highlight(row.EoS, td), fill_toggle),
     link      |-> FirstUrl(row.UpgradePath)]

\* A slip of line 436: fill_toggle flips after NORMAL rows only.
RECURSIVE RenderRowsToggleOnNormal(_, _, _)
RenderRowsToggleOnNormal(rows, fill_toggle, td) ==
    IF rows = <<>>
    THEN <<>>
    ELSE <<RenderRow(Head(rows), fill_toggle, td)>>
            \o RenderRowsToggleOnNormal(Tail(rows),
                  IF Highlight(Head(rows).EoS, td) = "none"
                  THEN ~fill_toggle ELSE fill_toggle,
                  td)

\* lines 379-436: fill_toggle flips after every row
RECURSIVE RenderRows(_, _, _)
RenderRows(rows, fill_toggle, td) ==
    IF rows = <<>>
    THEN <<>>
    ELSE <<RenderRow(Head(rows), fill_toggle, td)>>
            \o RenderRows(Tail(rows), ~fill_toggle, td)

\* lines 332-436 for one organization
Section(item, td) ==
    IF item.report = <<>>
    THEN [name |-> item.name, notice |-> TRUE, rows |-> <<>>]
    ELSE [name |-> item.name, notice |-> FALSE,
          rows |-> RenderRows(item.report, FALSE, td)]

\* lines 275-438: the sections of the document written
generate_pdf(rs, td) ==
    [i \in 1..Len(rs) |-> Section(SortedByName(rs)[i], td)]

\* main, lines 559-562
GeneratePdf ==
    /\ pc = "generate_pdf"
    /\ ~args.no_pdf
    /\ pdf_file' = [written |-> TRUE, body |-> generate_pdf(reports, today)]
    /\ pc' = "generate_csv"
    /\ UNCHANGED <<normVars, inputVars, eol_df, error, fetchVars, reports, csv_file>>

(***************************************************************************)
(* The document renderer alone: generate_pdf reads reports and the date.   *)
(* The organization "B - 2" has any table of up to MaxPdfRows rows, the    *)
(* organization "a - 1" is absent, without matches or has two rows.        *)
(***************************************************************************)
Eos_Iso2025 == <<"2","0","2","5","-","0","1","-","0","1">>
Eos_Dec2024 == <<"D","e","c","e","m","b","e","r"," ","3","1",","," ","2","0","2","4">>
Eos_TBD     == <<"T","B","D">>
Eos_Feb30   == <<"F","e","b"," ","3","0",","," ","2","0","2","5">>

\* NotStr is the NaN of an empty cell.
EosCells == {Eos_Jan2026, Eos_Iso2025, Eos_Dec2024, Eos_TBD, Eos_Feb30, NotStr}

Todays == {<<2025, 1, 1>>, <<2024, 12, 31>>}

PdfRow(e) ==
    [Product     |-> <<"M","X">>,
     EoS         |-> e,
     UpgradePath |-> Url_u,
     ProductKey  |-> <<"M","X">>,
     Units       |-> 1]

PdfTables == UNION {[1..k -> {PdfRow(e) : e \in EosCells}] : k \in 0..MaxPdfRows}

PdfReports ==
    {<<[name |-> Label_B, report |-> t]>> : t \in PdfTables}
    \cup {<<[name |-> Label_B, report |-> t], [name |-> Label_a, report |-> u]>> :
            t \in PdfTables, u \in {<<>>, <<PdfRow(Eos_TBD), PdfRow(Eos_TBD)>>}}

InitPdf ==
    /\ pc = "generate_pdf"
    /\ page = NoPage
    /\ args = [no_pdf |-> FALSE, no_csv |-> TRUE]
    /\ selected_orgs = <<>>
    /\ today \in Todays
    /\ reports \in PdfReports
    /\ eol_df = <<>>
    /\ org_idx = 0
    /\ inventories = <<>>
    /\ error = ""
    /\ pdf_file = NoFile
    /\ csv_file = NoFile
    /\ NormIdle

NextPdf == GeneratePdf \/ SkipCsv

SpecPdf == InitPdf /\ [][NextPdf]_vars

(***************************************************************************)
(* main and fetch_inventories: the whole run                               *)
(*                                                                         *)
(* The organizations chosen (lines 543-544) are an input of the run.  An   *)
(* exception leaves main at once: the run is "aborted" and stays so.       *)
(***************************************************************************)
\* line 155: f"{org_name} - {org_id}"
LabelOf(org) == org.name \o <<" ", "-", " ">> \o org.id

\* line 158: inventories[label] = devices
DictSet(inv, label, devices) ==
    IF \E i \in 1..Len(inv) : inv[i].label = label
    THEN [i \in 1..Len(inv) |->
            IF inv[i].label = label
            THEN [label |-> label, devices |-> devices]
            ELSE inv[i]]
    ELSE Append(inv, [label |-> label, devices |-> devices])

Org_B == [name |-> <<"B">>, id |-> <<"2">>]
Org_a == [name |-> <<"a">>, id |-> <<"1">>]

\* What getOrganizationInventoryDevices may return.
ApiDeviceLists ==
    {<<>>,
     <<[model |-> <<"M","X">>, networkId |-> Net_1]>>,
     <<[model |-> <<"M","S">>, networkId |-> Net_1],
       [model |-> <<"m","x">>, networkId |-> Net_2],
       [model |-> <<"M","X">>, networkId |-> Null]>>}

MainPages ==
    {[fault |-> f, rows |-> <<>>] : f \in PageFaults}
    \cup {[fault |-> "none", rows |-> <<PlainRow(Cell_Commas)>>],
          [fault |-> "none", rows |-> <<PlainRow(Cell_MX)>>],
          [fault |-> "none", rows |-> <<PlainRow(Cell_MS), PlainRow(Cell_MX)>>]}

Selections ==
    {<<>>, <<Org_B>>, <<Org_a, Org_B>>, <<Org_B, Org_a>>, <<Org_B, Org_B>>}

Init ==
    /\ pc = "main"
    /\ page \in MainPages
    /\ args \in [no_pdf : BOOLEAN, no_csv : BOOLEAN]
    /\ selected_orgs \in Selections
    /\ today \in Todays
    /\ NormIdle
    /\ NothingDone

\* lines 531-544
ParseArgs ==
    /\ pc = "main"
    /\ IF args.no_pdf /\ args.no_csv
       THEN error' = "nothing to do" /\ pc' = "aborted"
       ELSE error' = error /\ pc' = "fetch_eol_table"
    /\ UNCHANGED <<normVars, inputVars, eol_df, fetchVars, reports, pdf_file, csv_file>>

\* A slip of lines 152-158: a failed call is noted and the loop goes on.
FetchInventorySkipFailed ==
    /\ pc = "fetch_inventories"
    /\ org_idx < Len(selected_orgs)
    /\ \/ /\ error' = "APIError"
          /\ org_idx' = org_idx + 1
          /\ UNCHANGED <<pc, inventories>>
       \/ \E devices \in ApiDeviceLists :
             /\ inventories' =
                    DictSet(inventories, LabelOf(selected_orgs[org_idx + 1]), devices)
             /\ org_idx' = org_idx + 1
             /\ UNCHANGED <<pc, error>>
    /\ UNCHANGED <<normVars, inputVars, eol_df, reports, pdf_file, csv_file>>

\* lines 152-158: one turn of the loop; the call raises or returns devices
FetchInventory ==
    /\ pc = "fetch_inventories"
    /\ org_idx < Len(selected_orgs)
    /\ \/ /\ error' = "APIError"
          /\ pc' = "aborted"
          /\ UNCHANGED <<org_idx, inventories>>
       \/ \E devices \in ApiDeviceLists :
             /\ inventories' =
                    DictSet(inventories, LabelOf(selected_orgs[org_idx + 1]), devices)
             /\ org_idx' = org_idx + 1
             /\ UNCHANGED <<pc, error>>
    /\ UNCHANGED <<normVars, inputVars, eol_df, reports, pdf_file, csv_file>>

\* line 159: the loop is over, fetch_inventories returns
InventoriesFetched ==
    /\ pc = "fetch_inventories"
    /\ org_idx = Len(selected_orgs)
    /\ org_idx' = 0
    /\ pc' = "build_eol_reports"
    /\ UNCHANGED <<normVars, inputVars, eol_df, error, inventories, reports,
                   pdf_file, csv_file>>

Next ==
    \/ ParseArgs
    \/ FetchEolTable
    \/ FetchInventory
    \/ InventoriesFetched
    \/ BuildEolReports
    \/ GeneratePdf
    \/ SkipPdf
    \/ GenerateCsv
    \/ SkipCsv

Spec == Init /\ [][Next]_vars

Built == pc \in {"generate_pdf", "generate_csv", "done"}

(***************************************************************************)
(* C1                                                                      *)
(***************************************************************************)
\* the devices of the organization with this label
DevicesOf(label) ==
    LET i == CHOOSE k \in 1..Len(inventories) : inventories[k].label = label
    IN  inventories[i].devices

\* the number of devices with a non-null networkId whose model, uppercased, is key
Deployed(devices, key) ==
    Cardinality({i \in 1..Len(devices) :
                    devices[i].networkId # Null /\ Upper(devices[i].model) = key})

\* a report row without its Total Units
CatalogPart(row) ==
    [Product     |-> row.Product,
     EoS         |-> row.EoS,
     UpgradePath |-> row.UpgradePath,
     ProductKey  |-> row.ProductKey]

\* rows are the catalog rows at the positions in idx, each once, in some order
IsArrangementOf(rows, idx) ==
    /\ Len(rows) = Cardinality(idx)
    /\ \E f \in [1..Len(rows) -> idx] :
        /\ \A i, j \in 1..Len(rows) : f[i] = f[j] => i = j
        /\ \A i \in 1..Len(rows) : CatalogPart(rows[i]) = eol_df[f[i]]

\* C1: in every organization's report each row's Total Units is the number of
\* the organization's devices with a non-null networkId whose uppercased model
\* is the row's ProductKey, and the rows are exactly the catalog rows for which
\* that number is at least 1.
C1_TotalUnitsAndSurvivors ==
    Built =>
        \A n \in 1..Len(reports) :
            LET devices == DevicesOf(reports[n].name)
                rows    == reports[n].report
            IN  /\ \A i \in 1..Len(rows) :
                      rows[i].Units = Deployed(devices, rows[i].ProductKey)
                /\ IsArrangementOf(rows,
                      {k \in 1..Len(eol_df) :
                          Deployed(devices, eol_df[k].ProductKey) >= 1})

\* C1 witness: an inventory of "MX" assigned, "MX" unassigned and "mx" assigned
\* has been matched with a catalog holding the key "MX": 2 units.
C1_Witness ==
    /\ Built
    /\ Len(inventories) = 1
    /\ inventories[1].devices =
            <<[model |-> <<"M","X">>, networkId |-> Net_1],
              [model |-> <<"M","X">>, networkId |-> Null],
              [model |-> <<"m","x">>, networkId |-> Net_2]>>
    /\ Len(reports) = 1
    /\ Len(reports[1].report) >= 1
    /\ \A i \in 1..Len(reports[1].report) :
          reports[1].report[i].ProductKey = <<"M","X">> /\ reports[1].report[i].Units = 2

(***************************************************************************)
(* C2                                                                      *)
(***************************************************************************)
\* the first position of the catalog that holds the row's Product
CatalogPosition(row) ==
    CHOOSE k \in 1..Len(eol_df) :
        /\ eol_df[k].Product = row.Product
        /\ \A j \in 1..Len(eol_df) : eol_df[j].Product = row.Product => k <= j

\* C2 as stated: the rows of each report are in descending order of Total
\* Units, and rows with equal Total Units are in catalog order.
C2_DescendingStable ==
    Built =>
        \A n \in 1..Len(reports) :
            LET rows == reports[n].report
            IN  \A i, j \in 1..Len(rows) :
                    i < j =>
                        /\ rows[i].Units >= rows[j].Units
                        /\ rows[i].Units = rows[j].Units
                              => CatalogPosition(rows[i]) <= CatalogPosition(rows[j])

(***************************************************************************)
(* C3                                                                      *)
(***************************************************************************)
\* no device of the list is assigned and of a model the catalog holds
NothingMatches(devices) ==
    \A k \in 1..Len(eol_df) : Deployed(devices, eol_df[k].ProductKey) = 0

\* C3: build_eol_reports returns one report per organization of inventories,
\* in the same order and under the organization's label, and the report of an
\* organization without any matching assigned device is empty.
C3_OneReportPerOrganization ==
    Built =>
        /\ Len(reports) = Len(inventories)
        /\ \A n \in 1..Len(reports) :
            /\ reports[n].name = inventories[n].label
            /\ NothingMatches(inventories[n].devices) => reports[n].report = <<>>

\* C3 witness: two organizations, one without devices and one with nothing
\* but an unassigned unit, both got an empty report.
C3_Witness ==
    /\ Built
    /\ Len(inventories) = 2
    /\ inventories[1].devices = <<>>
    /\ inventories[2].devices = <<[model |-> <<"M","X">>, networkId |-> Null]>>
    /\ Len(reports) = 2
    /\ reports[1].report = <<>>
    /\ reports[2].report = <<>>

(***************************************************************************)
(* C7                                                                      *)
(***************************************************************************)
CsvWritten == pc = "done" /\ csv_file.written

\* the rows of the table that carry this organization's label
RowsOf(name) == SelectSeq(csv_file.body, LAMBDA r : r.Organization = name)

\* C7: in the table an organization with an empty report has exactly one row,
\* with Total Units 0, a non-empty Note and blank data columns; an
\* organization with n >= 1 matched rows has exactly n rows, each with a blank
\* Note; the table has no other rows.
C7_RowsPerOrganization ==
    CsvWritten =>
        /\ \A n \in 1..Len(reports) :
            LET mine == RowsOf(reports[n].name)
            IN  IF reports[n].report = <<>>
                THEN /\ Len(mine) = 1
                     /\ mine[1].Units = 0
                     /\ mine[1].Note # <<>>
                     /\ mine[1].Product = <<>>
                     /\ mine[1].EoS = <<>>
                     /\ mine[1].UpgradePath = <<>>
                     /\ mine[1].ProductKey = <<>>
                ELSE /\ Len(mine) = Len(reports[n].report)
                     /\ \A i \in 1..Len(mine) : mine[i].Note = <<>>
        /\ \A i \in 1..Len(csv_file.body) :
            \E n \in 1..Len(reports) : reports[n].name = csv_file.body[i].Organization

\* C7 witness: a table written for one organization without matches and one
\* with two matched rows: three rows.
C7_Witness ==
    /\ CsvWritten
    /\ Len(reports) = 2
    /\ reports[1].report = <<>>
    /\ Len(reports[2].report) = 2
    /\ Len(csv_file.body) = 3

(***************************************************************************)
(* C8                                                                      *)
(***************************************************************************)
\* C8: the rows of the table are in ascending order of Organization and,
\* within one organization, in descending order of the numeric Total Units.
C8_SortedByOrganizationThenUnits ==
    CsvWritten =>
        \A i, j \in 1..Len(csv_file.body) :
            i < j =>
                /\ ~StrLess(csv_file.body[j].Organization, csv_file.body[i].Organization)
                /\ csv_file.body[i].Organization = csv_file.body[j].Organization
                      => csv_file.body[i].Units >= csv_file.body[j].Units

\* C8 witness: a table in which the organization "B - 2", fetched last, comes
\* first and has a row of 2 units before a row of 1 unit.
C8_Witness ==
    /\ CsvWritten
    /\ Len(inventories) = 2
    /\ inventories[2].label = Label_B
    /\ Len(csv_file.body) = 3
    /\ csv_file.body[1].Organization = Label_B
    /\ csv_file.body[1].Units = 2
    /\ csv_file.body[2].Organization = Label_B
    /\ csv_file.body[2].Units = 1
    /\ csv_file.body[3].Organization = Label_a

(***************************************************************************)
(* C4                                                                      *)
(***************************************************************************)
PdfWritten == pc \in {"generate_csv", "done"} /\ pdf_file.written

\* the report behind the k-th section of the document
ReportOfSection(k) ==
    LET n == CHOOSE i \in 1..Len(reports) : reports[i].name = pdf_file.body[k].name
    IN  reports[n].report

\* endOfSupportDate - today, in days, for a value that parses as a date
DaysLeft(eos_raw) == ToOrdinal(parse_end_of_support(eos_raw)) - ToOrdinal(today)

\* "red" is the tier EXPIRED, "yellow" AT_RISK, "none" NORMAL
TierAsSpecified(eos_raw) ==
    IF parse_end_of_support(eos_raw) = None THEN "none"
    ELSE IF DaysLeft(eos_raw) < 0 THEN "red"
    ELSE IF 0 <= DaysLeft(eos_raw) /\ DaysLeft(eos_raw) <= 365 THEN "yellow"
    ELSE "none"

\* C4: every row of the document is rendered, and its tier is EXPIRED exactly
\* when daysLeft < 0, AT_RISK exactly when 0 <= daysLeft <= 365 and NORMAL
\* otherwise; a value that does not parse as a date gives NORMAL and the
\* document is written all the same.
C4_RiskTier ==
    /\ pc \in {"generate_csv", "done"} /\ ~args.no_pdf => pdf_file.written
    /\ PdfWritten =>
        /\ Len(pdf_file.body) = Len(reports)
        /\ \A k \in 1..Len(pdf_file.body) :
            LET rows == ReportOfSection(k)
                out  == pdf_file.body[k].rows
            IN  /\ Len(out) = Len(rows)
                /\ \A i \in 1..Len(rows) :
                      LET unparsable == parse_end_of_support(rows[i].EoS) = None
                          daysLeft   == DaysLeft(rows[i].EoS)
                      IN  /\ out[i].highlight = "red"
                                <=> (~unparsable /\ daysLeft < 0)
                          /\ out[i].highlight = "yellow"
                                <=> (~unparsable /\ 0 <= daysLeft /\ daysLeft <= 365)
                          /\ out[i].highlight = "none"
                                <=> (unparsable \/ daysLeft > 365)

\* C4 witness: on 2025-01-01 a table with the dates "December 31, 2024" (-1
\* day), "2025-01-01" (0 days) and "Jan 1, 2026" (365 days) is rendered
\* EXPIRED, AT_RISK, AT_RISK.
C4_Witness ==
    /\ PdfWritten
    /\ today = <<2025, 1, 1>>
    /\ Len(reports) = 1
    /\ Len(reports[1].report) = 3
    /\ reports[1].report[1].EoS = Eos_Dec2024
    /\ reports[1].report[2].EoS = Eos_Iso2025
    /\ reports[1].report[3].EoS = Eos_Jan2026
    /\ pdf_file.body[1].rows[1].highlight = "red"
    /\ pdf_file.body[1].rows[2].highlight = "yellow"
    /\ pdf_file.body[1].rows[3].highlight = "yellow"

\* On 2024-12-31 "Jan 1, 2026" is 366 days ahead and NORMAL, and the dates
\* that do not parse, "TBD" and "Feb 30, 2025", are NORMAL.
C4_WitnessNormal ==
    /\ PdfWritten
    /\ today = <<2024, 12, 31>>
    /\ Len(reports) = 1
    /\ Len(reports[1].report) = 3
    /\ reports[1].report[1].EoS = Eos_Jan2026
    /\ reports[1].report[2].EoS = Eos_TBD
    /\ reports[1].report[3].EoS = Eos_Feb30
    /\ \A i \in 1..3 : pdf_file.body[1].rows[i].highlight = "none"

(***************************************************************************)
(* C10                                                                     *)
(***************************************************************************)
HighlightedFills(out) ==
    \A i \in 1..Len(out) :
        /\ out[i].highlight = "red" => out[i].fill = Fill_Red
        /\ out[i].highlight = "yellow" => out[i].fill = Fill_Yellow
        /\ out[i].highlight = "none" => out[i].fill \in {Fill_White, Fill_Grey}

\* C10 as stated: in every table EXPIRED rows have the expired fill, AT_RISK
\* rows the at-risk fill, and two NORMAL rows without a NORMAL row between
\* them have different shades, whatever rows lie between them.
C10_NormalRowsAlternate ==
    PdfWritten =>
        \A k \in 1..Len(pdf_file.body) :
            LET out == pdf_file.body[k].rows
            IN  /\ HighlightedFills(out)
                /\ \A i, j \in 1..Len(out) :
                      (/\ i < j
                       /\ out[i].highlight = "none"
                       /\ out[j].highlight = "none"
                       /\ \A m \in (i + 1)..(j - 1) : out[m].highlight # "none")
                          => out[i].fill # out[j].fill

\* C10 amended: in every table EXPIRED rows have the expired fill, AT_RISK
\* rows the at-risk fill, and a NORMAL row has the shade of its position in
\* the table, white on the 1st, 3rd, ... row and grey on the 2nd, 4th, ...;
\* so two NORMAL rows have different shades exactly when the number of rows
\* between them is even, adjacent NORMAL rows in particular.
C10_ShadeByPosition ==
    PdfWritten =>
        \A k \in 1..Len(pdf_file.body) :
            LET out == pdf_file.body[k].rows
            IN  /\ HighlightedFills(out)
                /\ \A i \in 1..Len(out) :
                      out[i].highlight = "none" =>
                          out[i].fill = IF i % 2 = 1 THEN Fill_White ELSE Fill_Grey
                /\ \A i, j \in 1..Len(out) :
                      (i < j /\ out[i].highlight = "none" /\ out[j].highlight = "none")
                          => (out[i].fill # out[j].fill <=> (j - i) % 2 = 1)

\* C10 witness: a table NORMAL, EXPIRED, NORMAL has been rendered white, red,
\* white.
C10_Witness ==
    /\ PdfWritten
    /\ Len(pdf_file.body) = 1
    /\ Len(pdf_file.body[1].rows) = 3
    /\ pdf_file.body[1].rows[1].highlight = "none"
    /\ pdf_file.body[1].rows[2].highlight = "red"
    /\ pdf_file.body[1].rows[3].highlight = "none"
    /\ pdf_file.body[1].rows[1].fill = Fill_White
    /\ pdf_file.body[1].rows[3].fill = Fill_White

(***************************************************************************)
(* C9                                                                      *)
(***************************************************************************)
Aborted == pc = "aborted"

AnyFileWritten == pdf_file.written \/ csv_file.written

\* the inventory of every chosen organization is in inventories
AllInventoriesFetched ==
    \A i \in 1..Len(selected_orgs) :
        \E k \in 1..Len(inventories) : inventories[k].label = LabelOf(selected_orgs[i])

\* C9: a file is written only after the catalog and the inventory of every
\* chosen organization have been fetched without error; once the catalog
\* fetch or one inventory fetch has failed, the run is aborted and neither
\* file is ever written.
C9_NoArtifactUnlessAllFetched ==
    /\ AnyFileWritten =>
        /\ error = ""
        /\ fetch_eol_table(page).ok
        /\ eol_df = fetch_eol_table(page).df
        /\ org_idx = 0
        /\ AllInventoriesFetched
        /\ pc \in {"generate_csv", "done"}
    /\ error # "" => Aborted
    /\ Aborted => ~AnyFileWritten

\* C9 witness: the run is aborted by the failure of the second inventory
\* fetch, after the catalog and the first inventory were fetched; no file.
C9_Witness ==
    /\ Aborted
    /\ error = "APIError"
    /\ eol_df # <<>>
    /\ Len(selected_orgs) = 2
    /\ org_idx = 1
    /\ Len(inventories) = 1
    /\ ~AnyFileWritten

\* The run is aborted by the failure of the catalog fetch; no file.
C9_WitnessCatalog ==
    /\ Aborted
    /\ page.fault # "none"
    /\ error = page.fault
    /\ inventories = <<>>
    /\ ~AnyFileWritten

(***************************************************************************)
(* C11                                                                     *)
(***************************************************************************)
\* The hyperlink targets found in all the cells of one table row.
RECURSIVE LinksOfRow(_)
LinksOfRow(cells) ==
    IF cells = <<>> THEN <<>> ELSE TdLinks(Head(cells)) \o LinksOfRow(Tail(cells))

\* One link list per table row, in row order.
LinksPerRow(rows) == [i \in 1..Len(rows) |-> LinksOfRow(rows[i].cells)]

\* The catalog in which every row carries the links of its own table row.
CatalogWithOwnLinks(rows) ==
    KeyedRows(ExpandRows(
        [i \in 1..Len(rows) |->
            [Product     |-> rows[i].Product,
             EoS         |-> rows[i].EoS,
             UpgradePath |-> LinksPerRow(rows)[i]]]))

\* C11: link extraction yields one link list per table row, in row order,
\* holding the hyperlink targets of all the row's cells (empty for a row
\* without hyperlinks, a single list for a row with hyperlinks in several
\* cells), and whenever the list count equals the row count the links
\* attached to a catalog row are those of its own table row.
C11_OneLinkListPerRow ==
    pc = "fetch_inventories" =>
        /\ ScrapeLinks(page.rows) = LinksPerRow(page.rows)
        /\ Len(ScrapeLinks(page.rows)) = Len(page.rows) =>
               eol_df = CatalogWithOwnLinks(page.rows)

=============================================================================
